---- MODULE Spec2Model ----
(***************************************************************************)
(* Model of the monitor program (src/src/main.rs): one run polls the       *)
(* instance fleet, optionally compares its rendering with the state file,  *)
(* polls the queue health, and sends at most one notification.             *)
(*                                                                         *)
(* Text values.  A string is modelled as the sequence of its lines, so     *)
(* joining with "\n" is concatenation of line sequences and the empty      *)
(* string is the one-line text whose line is empty.  An Option<T> is       *)
(* modelled as a sequence of length 0 (None) or 1 (Some).                  *)
(***************************************************************************)
EXTENDS Integers, Sequences, FiniteSets, TLC

VARIABLES file, run, builder

vars == <<file, run, builder>>

\* Largest number of instances the upstream listing describes.
MaxInstances == 2

\* The snapshot builder on its own: longest description list, status list and tag list.
MaxDescribed == 2
MaxStatuses == 3
MaxTags == 2

\* Processes that may invoke the program on the same state file.
Procs == {1, 2}

None == << >>
Some(x) == <<x>>

EmptyLine == << >>
EmptyText == <<EmptyLine>>

\* The queue thresholds, main.rs:128 and main.rs:132.
PendingThreshold == 500
ErrorThreshold == 500

\* Queue counts the health endpoint may report (around the thresholds).
QueueCounts == {0, 500, 501, 600}

(***************************************************************************)
(* Upstream fleet responses.  Instance k of the listing has id k.          *)
(***************************************************************************)
Tag(k, v) == [key |-> k, value |-> v]

TagsOf(k) ==
    IF k = 1 THEN <<Tag("Name", "web")>>
    ELSE IF k = 2 THEN <<Tag("Env", "prod")>>
    ELSE IF k = 3 THEN <<Tag("Env", "prod"), Tag("Name", "db"), Tag("Name", "db2")>>
    ELSE << >>

Instance(k) == [id |-> k, tags |-> TagsOf(k)]

\* describe_instances: the first instance in one reservation, the rest in a second.
Reservations(n) ==
    IF n = 0 THEN << >>
    ELSE IF n = 1 THEN << <<Instance(1)>> >>
    ELSE << <<Instance(1)>>, [k \in 1..(n - 1) |-> Instance(k + 1)] >>

Status(k, st, sum, sys) == [id |-> k, state |-> st, summary |-> sum, system |-> sys]

Healthy(k) == Status(k, Some("running"), Some("ok"), Some("ok"))

Scenarios ==
    {"healthy", "stopped", "impaired", "no_status_last", "extra_status",
     "missing_state", "missing_summary", "missing_system",
     "dup_adjacent", "dup_separated"}

\* describe_instance_status: the status list returned for n described instances.
Statuses(n, sc) ==
    LET all == [k \in 1..n |-> Healthy(k)]
    IN CASE sc = "healthy" -> all
         [] sc = "stopped" ->
              [k \in 1..n |-> IF k = 1 THEN Status(1, Some("stopped"), Some("ok"), Some("ok"))
                                       ELSE Healthy(k)]
         [] sc = "impaired" ->
              [k \in 1..n |-> IF k = n THEN Status(k, Some("running"), Some("impaired"), Some("ok"))
                                       ELSE Healthy(k)]
         [] sc = "no_status_last" -> IF n = 0 THEN << >> ELSE SubSeq(all, 1, n - 1)
         [] sc = "extra_status" -> Append(all, Healthy(n + 1))
         [] sc = "missing_state" ->
              [k \in 1..n |-> IF k = n THEN Status(k, None, Some("ok"), Some("ok"))
                                       ELSE Healthy(k)]
         [] sc = "missing_summary" ->
              [k \in 1..n |-> IF k = n THEN Status(k, Some("running"), None, Some("ok"))
                                       ELSE Healthy(k)]
         [] sc = "missing_system" ->
              [k \in 1..n |-> IF k = n THEN Status(k, Some("running"), Some("ok"), None)
                                       ELSE Healthy(k)]
         [] sc = "dup_adjacent" ->
              <<Status(1, Some("pending"), Some("initializing"), Some("ok"))>> \o all
         [] sc = "dup_separated" ->
              all \o <<Status(1, Some("pending"), Some("initializing"), Some("ok"))>>

(***************************************************************************)
(* InstanceChecker::get_server_status, main.rs:222-266                     *)
(***************************************************************************)
RECURSIVE Flatten(_)
Flatten(ss) == IF ss = << >> THEN << >> ELSE Head(ss) \o Flatten(Tail(ss))

\* chunk_by(instance_id): the index at which each run of equal consecutive ids starts.
ChunkHeads(statuses) ==
    {i \in 1..Len(statuses) : i = 1 \/ statuses[i].id # statuses[i - 1].id}

\* Variant: only the head of the status list is consulted.
HasStatusAtHead(statuses, id) == statuses # << >> /\ statuses[1].id = id

\* collect() into the HashMap: a later chunk with the same id replaces an earlier one.
HasStatus(statuses, id) == \E i \in ChunkHeads(statuses) : statuses[i].id = id

StatusById(statuses, id) ==
    LET heads == {i \in ChunkHeads(statuses) : statuses[i].id = id}
        last == CHOOSE i \in heads : \A j \in heads : j <= i
    IN statuses[last]

\* The three unwrap() calls of main.rs:257-259.
MissingField(status) ==
    status.state = None \/ status.summary = None \/ status.system = None

ServerOf(instance, status) ==
    [id |-> instance.id, tags |-> instance.tags, state |-> status.state[1],
     summary |-> status.summary[1], system_summary |-> status.system[1]]

\* Variant: an instance whose status lacks a field is left out of the snapshot.
RECURSIVE CorrelateSkipsIncomplete(_, _)
CorrelateSkipsIncomplete(instances, statuses) ==
    IF instances = << >> THEN [panic |-> FALSE, servers |-> << >>]
    ELSE LET instance == Head(instances)
             rest == CorrelateSkipsIncomplete(Tail(instances), statuses)
         IN IF ~HasStatus(statuses, instance.id) THEN rest
            ELSE IF MissingField(StatusById(statuses, instance.id)) THEN rest
                 ELSE [panic |-> FALSE,
                       servers |-> <<ServerOf(instance, StatusById(statuses, instance.id))>>
                                   \o rest.servers]

RECURSIVE Correlate(_, _)
Correlate(instances, statuses) ==
    IF instances = << >> THEN [panic |-> FALSE, servers |-> << >>]
    ELSE LET instance == Head(instances)
             rest == Correlate(Tail(instances), statuses)
         IN IF ~HasStatus(statuses, instance.id) THEN rest
            ELSE IF MissingField(StatusById(statuses, instance.id))
                 THEN [panic |-> TRUE, servers |-> << >>]
                 ELSE IF rest.panic THEN rest
                      ELSE [panic |-> FALSE,
                            servers |-> <<ServerOf(instance, StatusById(statuses, instance.id))>>
                                        \o rest.servers]

get_server_status(reservations, statuses) == Correlate(Flatten(reservations), statuses)

\* The upstream data is malformed: a described instance has status records and
\* every one of them lacks its lifecycle state, instance status or system status.
Malformed(reservations, statuses) ==
    LET instances == Flatten(reservations)
    IN \E i \in 1..Len(instances) :
         /\ \E j \in 1..Len(statuses) : statuses[j].id = instances[i].id
         /\ \A j \in 1..Len(statuses) :
              statuses[j].id = instances[i].id => MissingField(statuses[j])

(***************************************************************************)
(* ServerStatus::name, main.rs:291-301                                     *)
(***************************************************************************)
RECURSIVE name(_)
name(tags) ==
    IF tags = << >> THEN "UNAMED"
    ELSE IF Head(tags).key = "Name" THEN Head(tags).value
         ELSE name(Tail(tags))

(***************************************************************************)
(* Rendering, main.rs:170-184                                              *)
(***************************************************************************)
Summary(server) ==
    <<server.id, name(server.tags), server.state, server.summary, server.system_summary>>

Join(lines) == IF lines = << >> THEN EmptyText ELSE lines

Paragraph(servers) == Join([i \in 1..Len(servers) |-> Summary(servers[i])])

(***************************************************************************)
(* InstanceChecker::read_previous_state, main.rs:268-279                   *)
(***************************************************************************)
\* The file is absent (None) or holds a text (Some); a failed open or read gives None.
read_previous_state(f, readable) == IF f # None /\ readable THEN f ELSE None

(***************************************************************************)
(* InstanceChecker::check, main.rs:188-219                                 *)
(***************************************************************************)
\* Variant: the negation of only_changes is lost.
notifyingWhenTracking(email, only_changes) == email /\ only_changes

\* main.rs:188
notifying(email, only_changes) == email /\ ~only_changes

\* Variant: the state file is consulted in every run.
TrackAlways(only_changes) == TRUE

\* main.rs:190, the branch that reads and writes the state file
TrackChanges(only_changes) == only_changes

\* Variant: a missing previous rendering counts as unchanged.
ModifiedUnlessAbsent(previous, paragraph) ==
    IF previous # None THEN previous[1] # paragraph ELSE FALSE

\* main.rs:192-196
Modified(previous, paragraph) ==
    IF previous # None THEN previous[1] # paragraph ELSE TRUE

\* Variant: the state file is rewritten whatever the comparison said.
SaveAlways(modified) == TRUE

\* main.rs:198, the guard of the write
ShouldSave(modified) == modified

\* Variants: || in place of &&, and the email flag ignored.
ModifiedOrEmail(modified, email) == modified \/ email
ModifiedIgnoringEmail(modified, email) == modified

\* main.rs:210, the value of the only_changes branch
ModifiedAndEmail(modified, email) == modified /\ email

\* main.rs:215-219, the Option inside Ok(..)
CheckResult(isNotifying, modified, paragraph) ==
    IF isNotifying \/ modified THEN Some(paragraph) ELSE None

(***************************************************************************)
(* QueueChecker::check, main.rs:126-139                                    *)
(***************************************************************************)
PendingWarning(n) == <<"WARNING: Queue length is", n>>
ErrorWarning(n) == <<"WARNING: Error queue length is", n>>

\* Variant: >= in place of >.
QueueMessagesAtLeast(health) ==
    (IF health.pending >= PendingThreshold THEN << <<PendingWarning(health.pending)>> >> ELSE << >>)
    \o (IF health.errors >= ErrorThreshold THEN << <<ErrorWarning(health.errors)>> >> ELSE << >>)

QueueMessages(health) ==
    (IF health.pending > PendingThreshold THEN << <<PendingWarning(health.pending)>> >> ELSE << >>)
    \o (IF health.errors > ErrorThreshold THEN << <<ErrorWarning(health.errors)>> >> ELSE << >>)

(***************************************************************************)
(* main and Notification::send, main.rs:42-82                              *)
(***************************************************************************)
\* main.rs:68-72: Ok(Some(m)) pushes m, Ok(None) and Err(e) push nothing.
FleetArm(messages, tag, m) == IF tag = "Some" THEN Append(messages, m) ELSE messages

\* Variants: warnings only join an existing notification; an Err drops the messages.
QueueArmOnlyWithFleet(messages, tag, m) ==
    IF tag = "Ok" /\ messages # << >> THEN messages \o m ELSE messages
QueueArmErrAborts(messages, tag, m) == IF tag = "Ok" THEN messages \o m ELSE << >>
\* Variant: the warnings are put in front of the messages.
QueueArmPrepends(messages, tag, m) == IF tag = "Ok" THEN m \o messages ELSE messages

\* main.rs:74-77: Ok(m) extends the messages, Err(e) adds nothing.
QueueArm(messages, tag, m) == IF tag = "Ok" THEN messages \o m ELSE messages

\* main.rs:43
NothingToSend(messages) == messages = << >>

\* main.rs:52, messages.join("\n")
Body(messages) == Flatten(messages)

(***************************************************************************)
(* The state of one run                                                    *)
(***************************************************************************)
IdleRun ==
    [pc |-> "idle", email |-> FALSE, only_changes |-> FALSE,
     paragraph |-> None, previous |-> None, verdict |-> "none",
     result |-> "pending", health |-> None, queue |-> "pending",
     warnings |-> << >>, messages |-> << >>, sent |-> << >>,
     saved |-> "no", exit |-> "running", log |-> << >>, file0 |-> None,
     malformed |-> FALSE, chain |-> TRUE, before |-> None, committed |-> None]

\* The snapshot builder on its own: no input yet.
IdleBuilder == [phase |-> "idle"]

Init ==
    /\ file = None
    /\ run = [p \in Procs |-> IdleRun]
    /\ builder = IdleBuilder

Update(p, r) ==
    /\ run' = [run EXCEPT ![p] = r]
    /\ UNCHANGED builder

\* check returns to main (main.rs:68-72), which goes on to the queue check.
Returned(r, tag, m) ==
    [r EXCEPT !.result = tag, !.messages = FleetArm(r.messages, tag, m), !.pc = "queue"]

Finished(r) == r.pc \in {"done", "panicked"}

\* The state file existed but read_previous_state gave None (main.rs:273-277).
ReadFailed(r) == r.verdict # "none" /\ r.previous = None /\ r.file0 # None

\* A run that ended with no step failing: both polls, the read, the write and
\* the delivery succeeded and main returned Ok (main.rs:81).
Successful(r) ==
    /\ r.pc = "done" /\ r.exit = "ok"
    /\ r.result \in {"Some", "None"} /\ r.queue = "Ok"
    /\ r.saved # "failed" /\ ~ReadFailed(r)

\* History kept across the invocations of one process: whether every run up
\* to and including the one starting is a successful change-tracking run with
\* email requested, and what the preceding run rendered.
Chain(r, email, only_changes) ==
    /\ r.chain
    /\ r.pc = "idle" \/ Successful(r)
    /\ email /\ only_changes

\* History: the rendering the preceding run persisted, when that run then
\* failed to deliver or had no email requested.
Committed(r) ==
    IF /\ r.pc = "done" /\ r.only_changes /\ r.saved = "ok"
       /\ (r.exit = "error" \/ ~r.email)
    THEN r.paragraph ELSE None

\* main.rs:62-66: a new invocation of the program with its options.
Start(p) ==
    /\ run[p].pc = "idle" \/ Finished(run[p])
    /\ \E email \in BOOLEAN, only_changes \in BOOLEAN :
         Update(p, [IdleRun EXCEPT !.pc = "fleet", !.email = email,
                                   !.only_changes = only_changes, !.file0 = file,
                                   !.chain = Chain(run[p], email, only_changes),
                                   !.before = IF Chain(run[p], email, only_changes)
                                              THEN run[p].paragraph ELSE None,
                                   !.committed = Committed(run[p])])
    /\ UNCHANGED file

\* main.rs:168: an upstream describe call fails and check returns Err.
FleetPollFails(p) ==
    /\ run[p].pc = "fleet"
    /\ Update(p, Returned(run[p], "Err", None))
    /\ UNCHANGED file

\* main.rs:168-188 (and 215-219 when only_changes is off).
FleetPoll(p) ==
    /\ run[p].pc = "fleet"
    /\ \E n \in 0..MaxInstances, sc \in Scenarios :
         LET r == run[p]
             got == get_server_status(Reservations(n), Statuses(n, sc))
             paragraph == Paragraph(got.servers)
             out == CheckResult(notifying(r.email, r.only_changes), FALSE, paragraph)
         IN IF got.panic
            THEN Update(p, [r EXCEPT !.pc = "panicked", !.exit = "panic",
                                     !.malformed = Malformed(Reservations(n), Statuses(n, sc))])
            ELSE IF TrackChanges(r.only_changes)
                 THEN Update(p, [r EXCEPT !.paragraph = Some(paragraph), !.pc = "read",
                                          !.malformed = Malformed(Reservations(n), Statuses(n, sc))])
                 ELSE Update(p, Returned([r EXCEPT !.paragraph = Some(paragraph),
                                                   !.malformed = Malformed(Reservations(n),
                                                                           Statuses(n, sc))],
                                         IF out = None THEN "None" ELSE "Some",
                                         IF out = None THEN None ELSE out[1]))
    /\ UNCHANGED file

\* Variant: the state file is read and compared again before it is opened for writing.
ReadStateRepeated(p) ==
    /\ run[p].pc \in {"read", "open"}
    /\ \E readable \in BOOLEAN :
         LET r == run[p]
             previous == read_previous_state(file, readable)
             modified == Modified(previous, r.paragraph[1])
             seen == [r EXCEPT !.previous = previous, !.log = Append(r.log, "read"),
                               !.verdict = IF modified THEN "changed" ELSE "unchanged"]
             out == CheckResult(notifying(r.email, r.only_changes),
                                ModifiedAndEmail(modified, r.email), r.paragraph[1])
         IN IF ShouldSave(modified)
            THEN Update(p, [seen EXCEPT !.pc = IF r.pc = "read" THEN "open" ELSE "write"])
            ELSE Update(p, Returned(seen, IF out = None THEN "None" ELSE "Some",
                                          IF out = None THEN None ELSE out[1]))
    /\ UNCHANGED file

\* main.rs:192-198 (and 210-219 when nothing is modified).
ReadState(p) ==
    /\ run[p].pc = "read"
    /\ \E readable \in BOOLEAN :
         LET r == run[p]
             previous == read_previous_state(file, readable)
             modified == Modified(previous, r.paragraph[1])
             seen == [r EXCEPT !.previous = previous, !.log = Append(r.log, "read"),
                               !.verdict = IF modified THEN "changed" ELSE "unchanged"]
             out == CheckResult(notifying(r.email, r.only_changes),
                                ModifiedAndEmail(modified, r.email), r.paragraph[1])
         IN IF ShouldSave(modified)
            THEN Update(p, [seen EXCEPT !.pc = "open"])
            ELSE Update(p, Returned(seen, IF out = None THEN "None" ELSE "Some",
                                          IF out = None THEN None ELSE out[1]))
    /\ UNCHANGED file

\* main.rs:199-205: create/truncate the state file.
OpenState(p) ==
    /\ run[p].pc = "open"
    /\ file' = Some(EmptyText)
    /\ Update(p, [run[p] EXCEPT !.pc = "write", !.log = Append(@, "open")])

\* main.rs:205: the open fails and check returns Err.
OpenStateFails(p) ==
    /\ run[p].pc = "open"
    /\ Update(p, Returned([run[p] EXCEPT !.log = Append(@, "open"), !.saved = "failed"],
                           "Err", None))
    /\ UNCHANGED file

\* Variant: the file is truncated but the rendering never reaches it.
WriteStateLeavesTruncated(p) ==
    /\ run[p].pc = "write"
    /\ LET r == run[p]
           out == CheckResult(notifying(r.email, r.only_changes),
                              ModifiedAndEmail(r.verdict = "changed", r.email),
                              r.paragraph[1])
       IN /\ UNCHANGED file
          /\ Update(p, Returned([r EXCEPT !.log = Append(@, "write"), !.saved = "ok"],
                                IF out = None THEN "None" ELSE "Some",
                                IF out = None THEN None ELSE out[1]))

\* main.rs:206-219: the rendering replaces the file content.
WriteState(p) ==
    /\ run[p].pc = "write"
    /\ LET r == run[p]
           out == CheckResult(notifying(r.email, r.only_changes),
                              ModifiedAndEmail(r.verdict = "changed", r.email),
                              r.paragraph[1])
       IN /\ file' = r.paragraph
          /\ Update(p, Returned([r EXCEPT !.log = Append(@, "write"), !.saved = "ok"],
                                IF out = None THEN "None" ELSE "Some",
                                IF out = None THEN None ELSE out[1]))

\* Variant: the error of write_all or flush is dropped and check goes on to its result.
WriteStateFailsIgnored(p) ==
    /\ run[p].pc = "write"
    /\ file' \in {file, run[p].paragraph}
    /\ LET r == run[p]
           out == CheckResult(notifying(r.email, r.only_changes),
                              ModifiedAndEmail(r.verdict = "changed", r.email),
                              r.paragraph[1])
       IN Update(p, Returned([r EXCEPT !.log = Append(@, "write"), !.saved = "failed"],
                             IF out = None THEN "None" ELSE "Some",
                             IF out = None THEN None ELSE out[1]))

\* main.rs:206-207: write_all or flush fails; the file keeps what reached it.
WriteStateFails(p) ==
    /\ run[p].pc = "write"
    /\ file' \in {file, run[p].paragraph}
    /\ Update(p, Returned([run[p] EXCEPT !.log = Append(@, "write"), !.saved = "failed"],
                           "Err", None))

\* main.rs:119-122: the login or the health query fails.
QueuePollFails(p) ==
    /\ run[p].pc = "queue"
    /\ Update(p, [run[p] EXCEPT !.queue = "Err", !.pc = "send",
                                !.messages = QueueArm(@, "Err", << >>)])
    /\ UNCHANGED file

\* main.rs:119-139 and 74-77.
QueuePoll(p) ==
    /\ run[p].pc = "queue"
    /\ \E pending \in QueueCounts, errors \in QueueCounts :
         LET health == [pending |-> pending, errors |-> errors]
             m == QueueMessages(health)
         IN Update(p, [run[p] EXCEPT !.queue = "Ok", !.health = Some(health),
                                     !.warnings = m, !.pc = "send",
                                     !.messages = QueueArm(@, "Ok", m)])
    /\ UNCHANGED file

\* main.rs:43-45 and 79-81: nothing to send.
SendNothing(p) ==
    /\ run[p].pc = "send"
    /\ NothingToSend(run[p].messages)
    /\ Update(p, [run[p] EXCEPT !.pc = "done", !.exit = "ok"])
    /\ UNCHANGED file

\* Variant: a failed delivery puts the state file back as the run found it.
SendRollsBack(p) ==
    /\ run[p].pc = "send"
    /\ ~NothingToSend(run[p].messages)
    /\ \E delivered \in BOOLEAN :
         /\ Update(p, [run[p] EXCEPT !.pc = "done", !.log = Append(@, "send"),
                                     !.sent = Append(@, Body(run[p].messages)),
                                     !.exit = IF delivered THEN "ok" ELSE "error"])
         /\ file' = IF delivered THEN file ELSE run[p].file0

\* main.rs:47-56 and 79-81: the body is handed to the transport, which may fail.
Send(p) ==
    /\ run[p].pc = "send"
    /\ ~NothingToSend(run[p].messages)
    /\ \E delivered \in BOOLEAN :
         Update(p, [run[p] EXCEPT !.pc = "done", !.log = Append(@, "send"),
                                  !.sent = Append(@, Body(run[p].messages)),
                                  !.exit = IF delivered THEN "ok" ELSE "error"])
    /\ UNCHANGED file

Step(p) ==
    \/ Start(p)
    \/ FleetPoll(p)
    \/ FleetPollFails(p)
    \/ ReadState(p)
    \/ OpenState(p)
    \/ OpenStateFails(p)
    \/ WriteState(p)
    \/ WriteStateFails(p)
    \/ QueuePoll(p)
    \/ QueuePollFails(p)
    \/ SendNothing(p)
    \/ Send(p)

\* Invocations that do not overlap: one process runs the program again and again.
Runners == {1}

Next == \E p \in Runners : Step(p)

Spec == Init /\ [][Next]_vars

(***************************************************************************)
(* Two invocations racing on the same state file: both were started with   *)
(* --email --only-changes on the same file, and their steps interleave.     *)
(***************************************************************************)
\* Contents the state file may have before the race: none, an empty
\* rendering, or the rendering of one or two healthy instances.
PriorBaselines ==
    {None} \cup {Some(Paragraph(get_server_status(Reservations(n), Statuses(n, "healthy")).servers)) :
                    n \in 0..MaxInstances}

InitRace ==
    /\ file \in PriorBaselines
    /\ run = [p \in Procs |-> [IdleRun EXCEPT !.pc = "fleet", !.email = TRUE,
                                               !.only_changes = TRUE, !.file0 = file]]
    /\ builder = IdleBuilder

\* The race is explored for the healthy renderings and for queue counts on
\* either side of the pending threshold.
RaceFleet(r) == r.pc = "read" /\ Some(r.paragraph[1]) \in PriorBaselines

RaceQueue(r) == r.health[1].errors = 0 /\ r.health[1].pending \in {0, 600}

\* One run each: the steps of main after its start.
RaceStep(p) ==
    \/ FleetPoll(p) /\ RaceFleet(run'[p])
    \/ FleetPollFails(p)
    \/ ReadState(p)
    \/ OpenState(p)
    \/ OpenStateFails(p)
    \/ WriteState(p)
    \/ WriteStateFails(p)
    \/ QueuePoll(p) /\ RaceQueue(run'[p])
    \/ QueuePollFails(p)
    \/ SendNothing(p)
    \/ Send(p)

NextRace == \E p \in Procs : RaceStep(p)

SpecRace == InitRace /\ [][NextRace]_vars

(***************************************************************************)
(* The snapshot builder on its own (main.rs:168-184), applied to every     *)
(* description list, tag list and status list within the bounds.           *)
(***************************************************************************)
Ids == {1, 2}

SeqsUpTo(S, n) == UNION {[1..k -> S] : k \in 0..n}

TagChoices == {Tag("Name", "a"), Tag("Name", "b"), Tag("Env", "x")}

StatusChoices ==
    {Status(k, Some(st), Some("ok"), Some("ok")) : k \in Ids, st \in {"running", "stopped"}}

\* Instance 1 carries the tag list under test, the others their usual tags.
Described(k, tags) == [id |-> k, tags |-> IF k = 1 THEN tags ELSE TagsOf(k)]

\* describe_instances: the first instance in one reservation, the rest in a second.
ReservationsOf(described, tags) ==
    IF described = << >> THEN << >>
    ELSE << <<Described(described[1], tags)>>,
            [i \in 1..(Len(described) - 1) |-> Described(described[i + 1], tags)] >>

InitBuilder ==
    /\ file = None
    /\ run = [p \in Procs |-> IdleRun]
    /\ \E d \in SeqsUpTo(Ids, MaxDescribed), t \in SeqsUpTo(TagChoices, MaxTags),
          s \in SeqsUpTo(StatusChoices, MaxStatuses) :
         builder = [phase |-> "input", described |-> d, tags |-> t, statuses |-> s]

\* main.rs:168-184: correlate and render.
Build ==
    /\ builder.phase = "input"
    /\ LET got == get_server_status(ReservationsOf(builder.described, builder.tags),
                                    builder.statuses)
       IN builder' = [phase |-> "built", described |-> builder.described,
                      tags |-> builder.tags, statuses |-> builder.statuses,
                      panic |-> got.panic, servers |-> got.servers,
                      paragraph |-> Paragraph(got.servers)]
    /\ UNCHANGED <<file, run>>

NextBuilder == Build

SpecBuilder == InitBuilder /\ [][NextBuilder]_vars

(***************************************************************************)
(* Properties                                                              *)
(***************************************************************************)
\* check has returned to main.
AfterCheck(r) == r.result # "pending"

\* get_server_status and the rendering succeeded.
Built(r) == r.paragraph # None

\* main pushed the fleet paragraph as the first message.
FleetContributed(r) ==
    /\ r.result = "Some"
    /\ r.messages # << >>
    /\ r.messages[1] = r.paragraph[1]

Count(log, e) == Cardinality({i \in 1..Len(log) : log[i] = e})

C2_Unconditional ==
    \A p \in Procs :
        (Built(run[p]) /\ run[p].email /\ ~run[p].only_changes)
            => /\ AfterCheck(run[p]) => FleetContributed(run[p])
               /\ run[p].pc = "done"
                    => /\ Len(run[p].sent) = 1
                       /\ Len(run[p].sent[1]) >= Len(run[p].paragraph[1])
                       /\ SubSeq(run[p].sent[1], 1, Len(run[p].paragraph[1]))
                            = run[p].paragraph[1]

C2_Witness ==
    \E p \in Procs :
        /\ run[p].pc = "done" /\ run[p].email /\ ~run[p].only_changes
        /\ Built(run[p])
        /\ run[p].file0 # None /\ run[p].file0 # run[p].paragraph
        /\ run[p].warnings # << >>
        /\ Len(run[p].sent) = 1

\* C3: in change-tracking mode the state file is written iff the verdict is
\* 'changed'; when check returns Ok the file holds the current rendering,
\* whatever the email flag; when the verdict is 'unchanged' nothing is
\* written and the file is the one the run found.
C3_WriteIffChanged ==
    \A p \in Procs :
        (AfterCheck(run[p]) /\ Built(run[p]) /\ run[p].only_changes)
            => /\ Count(run[p].log, "open") = (IF run[p].verdict = "changed" THEN 1 ELSE 0)
               /\ run[p].saved = "ok" <=> Count(run[p].log, "write") = 1 /\ run[p].result # "Err"
               /\ run[p].result # "Err" => file = run[p].paragraph
               /\ run[p].verdict = "changed" /\ run[p].result # "Err" => run[p].saved = "ok"
               /\ run[p].verdict = "unchanged"
                    => /\ Count(run[p].log, "open") = 0
                       /\ Count(run[p].log, "write") = 0
                       /\ file = run[p].file0

C3_Witness ==
    \E p \in Procs :
        /\ run[p].pc = "done" /\ run[p].only_changes /\ ~run[p].email
        /\ run[p].verdict = "changed" /\ run[p].saved = "ok"
        /\ run[p].file0 # None /\ run[p].file0 # run[p].paragraph
        /\ file = run[p].paragraph

\* C4: the verdict is 'changed' exactly when the previous rendering is absent
\* (no file, or a file that cannot be read) or differs from the current
\* rendering; equal renderings give 'unchanged'.
C4_Verdict ==
    \A p \in Procs :
        (run[p].verdict # "none")
            => /\ run[p].previous \in {None, run[p].file0}
               /\ run[p].file0 = None => run[p].previous = None
               /\ run[p].verdict = "changed"
                    <=> (run[p].previous = None \/ run[p].previous # run[p].paragraph)
               /\ run[p].previous = run[p].paragraph => run[p].verdict = "unchanged"

C4_Witness ==
    \E p \in Procs :
        /\ run[p].verdict = "changed"
        /\ run[p].file0 # None
        /\ run[p].previous = None

\* C5: with change tracking off a run neither reads nor writes the state
\* file (it is the file the run found, at every step of the run) and the
\* detector never yields 'changed'.
C5_TrackingDisabled ==
    \A p \in Procs :
        (run[p].pc # "idle" /\ ~run[p].only_changes)
            => /\ Count(run[p].log, "read") = 0
               /\ Count(run[p].log, "open") = 0
               /\ Count(run[p].log, "write") = 0
               /\ run[p].previous = None
               /\ run[p].saved = "no"
               /\ file = run[p].file0
               /\ run[p].verdict = "none"

C5_Witness ==
    \E p \in Procs :
        /\ run[p].pc = "done" /\ ~run[p].only_changes /\ run[p].email
        /\ Built(run[p])
        /\ run[p].file0 # None /\ run[p].file0 # run[p].paragraph
        /\ file = run[p].file0

\* The lines of the body handed to the transport.
SentLines(r) == {r.sent[1][i] : i \in 1..Len(r.sent[1])}

\* C6: whenever the queue poll succeeds, every warning it produced is in the
\* body handed to the transport, whatever the flags, the verdict and the
\* outcome of the fleet check; with pending 600, errors 0, change tracking on
\* and the fleet unchanged the body is exactly the pending warning.
C6_QueueOrthogonal ==
    \A p \in Procs :
        (run[p].pc = "done" /\ run[p].queue = "Ok")
            => /\ run[p].warnings # << >>
                    => /\ Len(run[p].sent) = 1
                       /\ \A i \in 1..Len(run[p].warnings) :
                            run[p].warnings[i][1] \in SentLines(run[p])
               /\ (/\ run[p].health = Some([pending |-> 600, errors |-> 0])
                   /\ run[p].only_changes
                   /\ run[p].verdict = "unchanged")
                    => run[p].sent = << <<PendingWarning(600)>> >>

C6_Witness ==
    \E p \in Procs :
        /\ run[p].pc = "done"
        /\ run[p].health = Some([pending |-> 600, errors |-> 0])
        /\ run[p].only_changes /\ run[p].email
        /\ run[p].verdict = "unchanged"
        /\ run[p].sent = << <<PendingWarning(600)>> >>

\* C7 as stated: the transport is invoked at most once per run and never
\* with an empty body.
C7_NeverEmpty ==
    \A p \in Procs :
        /\ Len(run[p].sent) <= 1
        /\ \A i \in 1..Len(run[p].sent) : run[p].sent[i] # EmptyText

\* C8 as stated: with change tracking on and email not requested the
\* transport is never invoked.
C8_AsStated ==
    \A p \in Procs :
        (run[p].pc = "done" /\ run[p].only_changes /\ ~run[p].email)
            => run[p].sent = << >>

\* C8 amended: with change tracking on and email not requested the run
\* still rewrites the state file when a change is detected, and it never
\* contributes the fleet paragraph; the transport is invoked exactly when the
\* queue poll produced warnings, and the body is then those warnings alone.
C8_TrackingWithoutEmail ==
    \A p \in Procs :
        (run[p].only_changes /\ ~run[p].email)
            => /\ ~FleetContributed(run[p])
               /\ (AfterCheck(run[p]) /\ run[p].verdict = "changed" /\ run[p].result # "Err")
                    => (run[p].saved = "ok" /\ file = run[p].paragraph)
               /\ run[p].pc = "done"
                    => /\ run[p].sent # << >> <=> run[p].warnings # << >>
                       /\ run[p].sent # << >> => run[p].sent = <<Body(run[p].warnings)>>

C8_Witness ==
    \E p \in Procs :
        /\ run[p].pc = "done" /\ run[p].only_changes /\ ~run[p].email
        /\ run[p].verdict = "changed" /\ run[p].saved = "ok"
        /\ Len(run[p].warnings) = 2
        /\ run[p].sent = <<Body(run[p].warnings)>>

\* C9 as stated: if the fleet poll or the queue poll returns an error, the
\* transport is not invoked in that run.
C9_AsStated ==
    \A p \in Procs :
        (run[p].pc = "done" /\ (run[p].result = "Err" \/ run[p].queue = "Err"))
            => run[p].sent = << >>

\* C9 amended: a poll that returns an error only removes that source's
\* contribution; the run goes on, the other source's content is still handed
\* to the transport, and the transport is not invoked only when the other
\* source has nothing to send either.  The run does not fail on a poll error.
C9_FailedPollSkipsSource ==
    \A p \in Procs :
        (run[p].pc = "done")
            => /\ (run[p].result = "Err" /\ run[p].queue = "Ok")
                    => run[p].sent = (IF run[p].warnings = << >> THEN << >>
                                      ELSE <<Body(run[p].warnings)>>)
               /\ (run[p].queue = "Err" /\ run[p].result = "Some")
                    => run[p].sent = <<run[p].paragraph[1]>>
               /\ (run[p].queue = "Err" /\ run[p].result \in {"Err", "None"})
                    => run[p].sent = << >>
               /\ run[p].sent = << >> => run[p].exit = "ok"

C9_Witness ==
    \E p \in Procs :
        /\ run[p].pc = "done" /\ run[p].result = "Err" /\ run[p].queue = "Ok"
        /\ run[p].saved = "no"
        /\ run[p].sent = <<Body(run[p].warnings)>>

\* C10: a pending warning is produced iff pending > 500 and an error warning
\* iff errors > 500, independently; the pending warning comes first and each
\* warning carries the count it reports.
C10_QueueThresholds ==
    \A p \in Procs :
        (run[p].queue = "Ok")
            => LET h == run[p].health[1]
                   w == run[p].warnings
                   np == IF h.pending > 500 THEN 1 ELSE 0
                   ne == IF h.errors > 500 THEN 1 ELSE 0
               IN /\ h.pending >= 0 /\ h.errors >= 0
                  /\ Len(w) = np + ne
                  /\ np = 1 => w[1] = <<PendingWarning(h.pending)>>
                  /\ ne = 1 => w[np + 1] = <<ErrorWarning(h.errors)>>
                  /\ (h.pending = 500 /\ h.errors = 500) => w = << >>

C10_Witness ==
    \E p \in Procs :
        /\ run[p].queue = "Ok"
        /\ run[p].health = Some([pending |-> 501, errors |-> 600])
        /\ run[p].warnings = << <<PendingWarning(501)>>, <<ErrorWarning(600)>> >>

\* The lines of the queue warnings, in the order the queue check returned them.
WarningLines(r) == [i \in 1..Len(r.warnings) |-> r.warnings[i][1]]

\* C11: the run makes at most one notification; its body is the fleet
\* paragraph, when check contributed one, followed by the queue warnings,
\* the pending warning before the error warning.
C11_OneOrderedBody ==
    \A p \in Procs :
        (run[p].pc = "done")
            => LET r == run[p]
                   fleet == IF FleetContributed(r) THEN r.paragraph[1] ELSE << >>
               IN /\ Len(r.sent) <= 1
                  /\ r.sent = << >> <=> (~FleetContributed(r) /\ r.warnings = << >>)
                  /\ r.sent # << >> => r.sent[1] = fleet \o WarningLines(r)
                  /\ Len(r.warnings) = 2
                       => /\ r.warnings[1][1][1] = "WARNING: Queue length is"
                          /\ r.warnings[2][1][1] = "WARNING: Error queue length is"

C11_Witness ==
    \E p \in Procs :
        /\ run[p].pc = "done"
        /\ FleetContributed(run[p])
        /\ Len(run[p].paragraph[1]) = 2
        /\ Len(run[p].warnings) = 2
        /\ run[p].sent = <<run[p].paragraph[1] \o WarningLines(run[p])>>

\* Some status record carries this id.
Reported(statuses, id) == \E j \in 1..Len(statuses) : statuses[j].id = id

\* The first status record of the upstream list that carries this id.
FirstReported(statuses, id) ==
    statuses[CHOOSE j \in 1..Len(statuses) :
                /\ statuses[j].id = id
                /\ \A k \in 1..(j - 1) : statuses[k].id # id]

\* C12: the snapshot holds exactly one summary for each described instance
\* whose id has a status record, in the listing order of the descriptions,
\* and none for an id that only one side knows.
C12_Correlation ==
    (builder.phase = "built")
        => LET matched(k) == Reported(builder.statuses, k)
               expected == SelectSeq(builder.described, matched)
           IN /\ ~builder.panic
              /\ Len(builder.servers) = Len(expected)
              /\ \A i \in 1..Len(expected) : builder.servers[i].id = expected[i]
              /\ \A i \in 1..Len(expected) : builder.paragraph[i][1] = expected[i]
              /\ expected = << >> => builder.paragraph = EmptyText

C12_Witness ==
    /\ builder.phase = "built"
    /\ builder.described = <<2, 1>>
    /\ Len(builder.statuses) = 3
    /\ \A j \in 1..3 : builder.statuses[j].id = 1
    /\ Len(builder.servers) = 1 /\ builder.servers[1].id = 1

\* C13 as stated: when several status records share an id, the one kept for
\* the summary is the first of the upstream status list, wherever the
\* duplicates stand.
C13_FirstStatusKept ==
    (builder.phase = "built")
        => \A i \in 1..Len(builder.servers) :
             builder.servers[i].state
                = FirstReported(builder.statuses, builder.servers[i].id).state[1]

\* The name the claim expects for a tag list.
ExpectedName(tags) ==
    IF \E i \in 1..Len(tags) : tags[i].key = "Name"
    THEN tags[CHOOSE i \in 1..Len(tags) :
                 /\ tags[i].key = "Name"
                 /\ \A k \in 1..(i - 1) : tags[k].key # "Name"].value
    ELSE "UNNAMED"

\* C14 as stated: the rendered name is the value of the first tag whose key
\* is "Name", and "UNNAMED" when there is none.
C14_NameResolution ==
    (builder.phase = "built")
        => \A i \in 1..Len(builder.servers) :
             builder.paragraph[i][2] = ExpectedName(builder.servers[i].tags)

\* C15: when a correlated instance lacks its lifecycle state, instance status
\* or system status the run stops there: nothing is rendered, the state file
\* is neither read nor written, the queue is not polled and nothing is handed
\* to the transport.
C15_MissingFieldFatal ==
    \A p \in Procs :
        run[p].malformed
            => /\ run[p].pc = "panicked" /\ run[p].exit = "panic"
               /\ run[p].paragraph = None
               /\ run[p].log = << >>
               /\ file = run[p].file0
               /\ run[p].queue = "pending"
               /\ run[p].messages = << >>
               /\ run[p].sent = << >>

C15_Witness ==
    \E p \in Procs :
        /\ run[p].malformed
        /\ run[p].pc = "panicked"
        /\ run[p].email
        /\ run[p].file0 # None

Rank(e) == CASE e = "read" -> 1 [] e = "open" -> 2 [] e = "write" -> 3 [] e = "send" -> 4

\* C17: in one run the state file is read at most once and written at most
\* once, the read and its comparison come before the truncating open and
\* the write, and all of them come before the transport is invoked.
C17_StateAccessOrder ==
    \A p \in Procs :
        LET log == run[p].log
        IN /\ \A e \in {"read", "open", "write", "send"} : Count(log, e) <= 1
           /\ \A i \in 1..Len(log) : \A j \in 1..Len(log) :
                i < j => Rank(log[i]) < Rank(log[j])
           /\ Count(log, "open") = 1
                => (Count(log, "read") = 1 /\ run[p].verdict = "changed")
           /\ Count(log, "write") = 1 => Count(log, "open") = 1
           /\ Count(log, "send") = 1 => Len(run[p].sent) = 1

C17_Witness ==
    \E p \in Procs : run[p].log = <<"read", "open", "write", "send">>

\* C18: in a sequence of successful change-tracking runs with email
\* requested that starts with no state file, a run contributes the fleet
\* paragraph iff it is the first run or its rendering differs from the
\* rendering of the run before it; a run on the same rendering contributes
\* nothing and leaves the file as it was; after every such run the file
\* holds that run's rendering.
C18_ReportedOnce ==
    \A p \in Procs :
        (run[p].chain /\ Successful(run[p]))
            => /\ FleetContributed(run[p])
                    <=> (run[p].before = None \/ run[p].before # run[p].paragraph)
               /\ file = run[p].paragraph
               /\ run[p].before = run[p].paragraph
                    => /\ Count(run[p].log, "open") = 0
                       /\ file = run[p].file0
                       /\ run[p].sent = (IF run[p].warnings = << >> THEN << >>
                                         ELSE <<WarningLines(run[p])>>)

C18_Witness ==
    \E p \in Procs :
        /\ run[p].chain /\ Successful(run[p])
        /\ run[p].before # None
        /\ run[p].before = run[p].paragraph
        /\ Len(run[p].paragraph[1]) = 2
        /\ ~FleetContributed(run[p])

\* C19: when a change-tracking run has persisted rendering R and then its
\* delivery failed, or it had no email requested, the next run finds R in
\* the state file; if that run tracks changes with email requested, renders
\* the same R and reads the file, its verdict is 'unchanged', it writes
\* nothing and it contributes no fleet paragraph.
C19_CommittedBeforeDelivery ==
    \A p \in Procs :
        (run[p].committed # None)
            => /\ run[p].file0 = run[p].committed
               /\ (/\ run[p].only_changes /\ run[p].email
                   /\ run[p].paragraph = run[p].committed
                   /\ run[p].verdict # "none" /\ ~ReadFailed(run[p]))
                    => /\ run[p].verdict = "unchanged"
                       /\ run[p].result = "None"
                       /\ ~FleetContributed(run[p])
                       /\ Count(run[p].log, "open") = 0
                       /\ file = run[p].committed

C19_Witness ==
    \E p \in Procs :
        /\ run[p].committed # None
        /\ run[p].pc = "done" /\ run[p].only_changes /\ run[p].email
        /\ run[p].paragraph = run[p].committed
        /\ run[p].verdict = "unchanged"
        /\ run[p].sent = << >>

\* The fleet paragraph of this run was handed to the transport.
Emitted(r) ==
    /\ FleetContributed(r)
    /\ Len(r.sent) = 1
    /\ SubSeq(r.sent[1], 1, Len(r.paragraph[1])) = r.paragraph[1]

\* C20: two change-tracking runs with email requested race on the state
\* file and render the same R, which differs from the baseline both found;
\* when neither write fails, in every interleaving at least one of them
\* hands the fleet paragraph to the transport, and once both are done the
\* file holds R.
C20_RaceNeverMisses ==
    (/\ run[1].pc = "done" /\ run[2].pc = "done"
     /\ run[1].paragraph # None /\ run[1].paragraph = run[2].paragraph
     /\ run[1].file0 = run[2].file0 /\ run[1].file0 # run[1].paragraph
     /\ run[1].saved # "failed" /\ run[2].saved # "failed")
        => /\ Emitted(run[1]) \/ Emitted(run[2])
           /\ file = run[1].paragraph

\* Both emit: the second read saw the file truncated by the first run.
C20_Witness ==
    /\ run[1].pc = "done" /\ run[2].pc = "done"
    /\ run[1].paragraph # None /\ run[1].paragraph = run[2].paragraph
    /\ run[1].file0 # None /\ run[1].file0 = run[2].file0
    /\ run[1].file0 # run[1].paragraph
    /\ run[1].previous = run[1].file0
    /\ run[2].previous = Some(EmptyText) /\ run[2].previous # run[2].file0
    /\ run[1].saved = "ok" /\ run[2].saved = "ok"
    /\ Emitted(run[1]) /\ Emitted(run[2])
    /\ file = run[1].paragraph

====
